---- MODULE Spec2Model ----
(***************************************************************************)
(* Model of spamhaus_ripe.py: the three Spamhaus fetches, the ASN to       *)
(* prefix lookup, consolidate_ip_ranges and the summary written by main.   *)
(*                                                                         *)
(* consolidate_ip_ranges delegates to the standard library                 *)
(* (ipaddress.ip_network with its default strict=True, and                 *)
(* ipaddress.collapse_addresses); both are modelled step for step.         *)
(*                                                                         *)
(* Addresses are integers of Width4 (IPv4) and Width6 (IPv6) bits instead  *)
(* of 32 and 128: a network of the model with prefix length p stands for   *)
(* a real network whose prefix is a fixed leading bit string followed by   *)
(* the p bits of the model.                                                *)
(***************************************************************************)
EXTENDS Integers, Sequences, FiniteSets, TLC

\* Address width of the two families (32 and 128 in ipaddress).
Width4 == 3
Width6 == 1
\* Longest token list handed to consolidate_ip_ranges.
MaxLen == 2

None == [kind |-> "none"]

max_prefixlen(version) == IF version = 4 THEN Width4 ELSE Width6

ALL_ONES(version) == 2^max_prefixlen(version) - 1

Min(a, b) == IF a <= b THEN a ELSE b

\* ---------------------------------------------------------------------
\* Tokens: the strings (or None) found in the fetched lists.
\*   "a.b.c.d/n"  [kind |-> "cidr", version, address, prefix]
\*   "a.b.c.d"    [kind |-> "bare", version, address]
\*   "not-an-ip"  [kind |-> "junk"]
\*   None         (a line with neither an "asn" nor a "cidr" key)
\* ---------------------------------------------------------------------
Cidr(v, a, p) == [kind |-> "cidr", version |-> v, address |-> a, prefix |-> p]

Bare(v, a) == [kind |-> "bare", version |-> v, address |-> a]

Junk == [kind |-> "junk"]

\* An IPv4Network / IPv6Network object.
Network(v, a, p) == [version |-> v, network_address |-> a, prefixlen |-> p]

hostmask(net) == 2^(max_prefixlen(net.version) - net.prefixlen) - 1

broadcast_address(net) == net.network_address + hostmask(net)

ValueError == [ok |-> FALSE, error |-> "ValueError"]

\* ip_network called with strict=False: host bits are masked off.
ip_network_lenient(ip) ==
    IF ip.kind = "bare"
    THEN [ok |-> TRUE,
          net |-> Network(ip.version, ip.address, max_prefixlen(ip.version))]
    ELSE IF ip.kind = "cidr"
    THEN IF ip.prefix > max_prefixlen(ip.version)
         THEN ValueError
         ELSE LET size == 2^(max_prefixlen(ip.version) - ip.prefix)
              IN  [ok |-> TRUE,
                   net |-> Network(ip.version,
                                   ip.address - (ip.address % size), ip.prefix)]
    ELSE ValueError

\* ipaddress.ip_network(address, strict=True): a network object, or
\* ValueError for anything that is not an address, for a prefix length out
\* of range and for an address with host bits set.
ip_network(ip) ==
    IF ip.kind = "bare"
    THEN [ok |-> TRUE,
          net |-> Network(ip.version, ip.address, max_prefixlen(ip.version))]
    ELSE IF ip.kind = "cidr"
    THEN IF ip.prefix > max_prefixlen(ip.version)
         THEN ValueError
         ELSE IF ip.address % 2^(max_prefixlen(ip.version) - ip.prefix) # 0
         THEN ValueError
         ELSE [ok |-> TRUE, net |-> Network(ip.version, ip.address, ip.prefix)]
    ELSE ValueError

\* supernet() that shortens the prefix and leaves the dropped bit set.
supernet_keeps_bit(net) ==
    IF net.prefixlen = 0
    THEN net
    ELSE Network(net.version, net.network_address, net.prefixlen - 1)

\* _BaseNetwork.supernet(): one bit shorter, that bit cleared; /0 is its own
\* supernet.
supernet(net) ==
    IF net.prefixlen = 0
    THEN net
    ELSE LET size == 2^(max_prefixlen(net.version) - (net.prefixlen - 1))
         IN  Network(net.version,
                     net.network_address - (net.network_address % size),
                     net.prefixlen - 1)

\* __lt__ that orders by netmask, longest first, before the address.
NetLess_netmask_first(a, b) ==
    \/ a.prefixlen > b.prefixlen
    \/ /\ a.prefixlen = b.prefixlen
       /\ a.network_address < b.network_address

\* _BaseNetwork.__lt__: by network address, then by netmask.
NetLess(a, b) ==
    \/ a.network_address < b.network_address
    \/ /\ a.network_address = b.network_address
       /\ a.prefixlen < b.prefixlen

RECURSIVE sorted(_)
sorted(S) ==
    IF S = {}
    THEN <<>>
    ELSE LET least == CHOOSE x \in S : \A y \in S \ {x} : NetLess(x, y)
         IN  <<least>> \o sorted(S \ {least})

RECURSIVE sorted_ints(_)
sorted_ints(S) ==
    IF S = {}
    THEN <<>>
    ELSE LET least == CHOOSE x \in S : \A y \in S : x <= y
         IN  <<least>> \o sorted_ints(S \ {least})

Range(s) == {s[i] : i \in DOMAIN s}

\* int.bit_length()
RECURSIVE bit_length(_)
bit_length(n) == IF n = 0 THEN 0 ELSE 1 + bit_length(n \div 2)

\* _count_righthand_zero_bits(number, bits)
RECURSIVE trailing_zeros(_)
trailing_zeros(n) == IF n % 2 = 1 THEN 0 ELSE 1 + trailing_zeros(n \div 2)

count_righthand_zero_bits(number, bits) ==
    IF number = 0 THEN bits ELSE Min(bits, trailing_zeros(number))

\* _find_address_range(addresses): the runs of consecutive integers of a
\* sorted, duplicate-free sequence, as <<first, last>> pairs.
RECURSIVE find_address_range(_, _, _, _)
find_address_range(addresses, i, first, last) ==
    IF i > Len(addresses)
    THEN << <<first, last>> >>
    ELSE IF addresses[i] # last + 1
    THEN << <<first, last>> >>
             \o find_address_range(addresses, i + 1, addresses[i], addresses[i])
    ELSE find_address_range(addresses, i + 1, first, addresses[i])

\* summarize_address_range that sizes a block by the alignment of its
\* first address alone, not by what is left of the range.
RECURSIVE summarize_address_range_by_alignment(_, _, _)
summarize_address_range_by_alignment(version, first_int, last_int) ==
    IF first_int > last_int
    THEN <<>>
    ELSE LET ip_bits == max_prefixlen(version)
             nbits == count_righthand_zero_bits(first_int, ip_bits)
             net == Network(version, first_int, ip_bits - nbits)
             next_int == first_int + 2^nbits
         IN  IF next_int - 1 = ALL_ONES(version)
             THEN <<net>>
             ELSE <<net>> \o summarize_address_range_by_alignment(
                                 version, next_int, last_int)

\* summarize_address_range(first, last)
RECURSIVE summarize_address_range(_, _, _)
summarize_address_range(version, first_int, last_int) ==
    IF first_int > last_int
    THEN <<>>
    ELSE LET ip_bits == max_prefixlen(version)
             nbits == Min(count_righthand_zero_bits(first_int, ip_bits),
                          bit_length(last_int - first_int + 1) - 1)
             net == Network(version, first_int, ip_bits - nbits)
             next_int == first_int + 2^nbits
         IN  IF next_int - 1 = ALL_ONES(version)
             THEN <<net>>
             ELSE <<net>> \o summarize_address_range(version, next_int, last_int)

RECURSIVE summarize_all(_, _)
summarize_all(version, ranges) ==
    IF ranges = <<>>
    THEN <<>>
    ELSE summarize_address_range(version, ranges[1][1], ranges[1][2])
             \o summarize_all(version, Tail(ranges))

\* The "First merge" loop of _collapse_addresses_internal: to_merge is a
\* stack popped from its end, subnets a dict from supernet to network.
RECURSIVE merge_loop(_, _)
merge_loop(to_merge, subnets) ==
    IF to_merge = <<>>
    THEN subnets
    ELSE LET net == to_merge[Len(to_merge)]
             rest == SubSeq(to_merge, 1, Len(to_merge) - 1)
             sup == supernet(net)
         IN  IF sup \notin DOMAIN subnets
             THEN merge_loop(rest, (sup :> net) @@ subnets)
             ELSE IF subnets[sup] # net
             THEN merge_loop(Append(rest, sup),
                             [k \in (DOMAIN subnets) \ {sup} |-> subnets[k]])
             ELSE merge_loop(rest, subnets)

\* The second loop without the test for subsumed networks.
skip_subsumed_keeps_all(nets, i, last) == SubSeq(nets, i, Len(nets))

\* The second loop of _collapse_addresses_internal: skip what the last
\* yielded network already covers.  last = None before the first yield.
RECURSIVE skip_subsumed(_, _, _)
skip_subsumed(nets, i, last) ==
    IF i > Len(nets)
    THEN <<>>
    ELSE IF last # None /\ broadcast_address(last) >= broadcast_address(nets[i])
    THEN skip_subsumed(nets, i + 1, last)
    ELSE <<nets[i]>> \o skip_subsumed(nets, i + 1, nets[i])

\* _collapse_addresses_internal without its merge loop.
collapse_addresses_internal_no_merge(addresses) ==
    skip_subsumed(sorted(Range(addresses)), 1, None)

collapse_addresses_internal(addresses) ==
    LET subnets == merge_loop(addresses, <<>>)
    IN  skip_subsumed(sorted({subnets[k] : k \in DOMAIN subnets}), 1, None)

\* ipaddress.collapse_addresses(addresses) for networks of one version.
collapse_addresses(version, addresses) ==
    LET is_host(i) == addresses[i].prefixlen = max_prefixlen(version)
        ips == sorted_ints({addresses[i].network_address :
                               i \in {j \in DOMAIN addresses : is_host(j)}})
        nets == SelectSeq(addresses,
                          LAMBDA n : n.prefixlen # max_prefixlen(version))
        addrs == IF ips = <<>>
                 THEN <<>>
                 ELSE summarize_all(version,
                          find_address_range(ips, 2, ips[1], ips[1]))
    IN  collapse_addresses_internal(addrs \o nets)

\* str(net): "address/prefixlen"
str(net) == <<net.network_address, net.prefixlen>>

\* The loop with the try around it: the first ValueError ends it.
RECURSIVE parse_ranges_try_outside(_, _)
parse_ranges_try_outside(ip_ranges, version) ==
    IF ip_ranges = <<>>
    THEN <<>>
    ELSE LET network == ip_network(ip_ranges[1])
             rest == parse_ranges_try_outside(Tail(ip_ranges), version)
         IN  IF ~network.ok
             THEN <<>>
             ELSE IF network.net.version = version
             THEN <<network.net>> \o rest
             ELSE rest

\* The loop of consolidate_ip_ranges: parse every token, keep the networks
\* of one version in input order, skip the tokens ip_network rejects.
RECURSIVE parse_ranges(_, _)
parse_ranges(ip_ranges, version) ==
    IF ip_ranges = <<>>
    THEN <<>>
    ELSE LET network == ip_network(ip_ranges[1])
             rest == parse_ranges(Tail(ip_ranges), version)
         IN  IF network.ok /\ network.net.version = version
             THEN <<network.net>> \o rest
             ELSE rest

strs(nets) == [i \in DOMAIN nets |-> str(nets[i])]

\* consolidate_ip_ranges that prints the parsed networks uncollapsed.
consolidate_ip_ranges_uncollapsed(ip_ranges) ==
    << strs(parse_ranges(ip_ranges, 4)), strs(parse_ranges(ip_ranges, 6)) >>

consolidate_ip_ranges(ip_ranges) ==
    << strs(collapse_addresses(4, parse_ranges(ip_ranges, 4))),
       strs(collapse_addresses(6, parse_ranges(ip_ranges, 6))) >>

\* ---------------------------------------------------------------------
\* Inputs of consolidate_ip_ranges.
\* ---------------------------------------------------------------------
Versions == {4, 6}

Addresses(v) == 0 .. ALL_ONES(v)

\* The strings ip_network accepts: every network in CIDR form and every
\* bare address.
GoodTokens ==
    UNION {
        {ip \in [kind : {"cidr"}, version : {v}, address : Addresses(v),
                    prefix : 0 .. max_prefixlen(v)] :
            ip.address % 2^(max_prefixlen(v) - ip.prefix) = 0}
            \cup {Bare(v, a) : a \in Addresses(v)}
        : v \in Versions}

\* A sample of what ip_network rejects: per prefix length a CIDR string
\* with host bits set (such as 10.1.2.3/8), a prefix length out of range,
\* a string that is no address, and None.
BadTokens ==
    UNION {
        {Cidr(v, ALL_ONES(v), p) : p \in 0 .. max_prefixlen(v) - 1}
            \cup {Cidr(v, 0, max_prefixlen(v) + 1)}
        : v \in Versions}
    \cup {Junk, None}

Tokens == GoodTokens \cup BadTokens

\* The spec's scenarios with more than MaxLen tokens: "not-an-ip" beside
\* the two halves of the IPv4 space; the bare addresses of a misaligned
\* interval; both families, a duplicate and None in one list.
Half == 2^(Width4 - 1)

Scenario5 == <<Junk, Cidr(4, 0, 1), Cidr(4, Half, 1)>>

Scenario6 == [i \in 1 .. ALL_ONES(4) - 1 |-> Bare(4, i)]

ScenarioMixed ==
    <<Cidr(4, Half, 1), None, Cidr(6, 0, 0), Bare(4, 0), Cidr(4, Half, 1),
      Cidr(4, ALL_ONES(4), 0), Bare(4, 1)>>

TokenLists ==
    UNION {[1 .. n -> Tokens] : n \in 0 .. MaxLen}
        \cup {Scenario5, Scenario6, ScenarioMixed}

\* ---------------------------------------------------------------------
\* The remote services.  A response is unreachable (session.get raises),
\* an HTTP error status (raise_for_status raises), a body that is not
\* JSON ("garbled"), or a body.
\* ---------------------------------------------------------------------
\* Most lines of a DROP body.
MaxLines == 1
\* Autonomous system numbers 1 .. MaxAsn, and most lines of an ASN-DROP body.
MaxAsn == 2

Metadata == [type |-> "metadata"]

NoResponse == [kind |-> "pending"]

FailureKinds == {"unreachable", "http_error"}

Failed(response) == response.kind \in FailureKinds

Bodies(entries, most) == UNION {[1 .. n -> entries] : n \in 0 .. most}

SpamhausResponses(entries, most) ==
    {[kind |-> k, lines |-> <<>>] : k \in FailureKinds \cup {"garbled"}}
        \cup {[kind |-> "ok", lines |-> l] : l \in Bodies(entries, most)}

\* The lines of drop_v4.json and drop_v6.json: a network each, and the
\* closing metadata line, which has no "cidr" key.
Drop4Entries == {[cidr |-> Cidr(4, 0, 1)], Metadata}

Drop6Entries == {[cidr |-> Cidr(6, 0, 0)]}

AsnEntries == {[asn |-> n] : n \in 1 .. MaxAsn} \cup {Metadata}

\* The prefixes RIPEstat announces for an ASN.
RipePrefixes == {Cidr(4, Half, 1), Cidr(6, 0, Width6)}

RipeResponses ==
    {[kind |-> k, prefixes |-> {}] : k \in FailureKinds \cup {"garbled"}}
        \cup {[kind |-> "ok", prefixes |-> ps] : ps \in SUBSET RipePrefixes}

\* entry.get("asn", entry.get("cidr"))
entry_get(entry) ==
    IF "asn" \in DOMAIN entry
    THEN entry.asn
    ELSE IF "cidr" \in DOMAIN entry THEN entry.cidr ELSE None

\* fetch_spamhaus_list(url, session): requests.RequestException is caught
\* and gives []; the ValueError json.loads raises on a body that is not
\* JSON is not caught.
fetch_spamhaus_list(response) ==
    IF Failed(response)
    THEN [raised |-> FALSE, value |-> <<>>]
    ELSE IF response.kind = "garbled"
    THEN [raised |-> TRUE, value |-> <<>>]
    ELSE [raised |-> FALSE,
          value |-> [i \in DOMAIN response.lines |-> entry_get(response.lines[i])]]

\* fetch_asn_ip_ranges with the try around the whole loop: the first
\* failed request ends it.
RECURSIVE fetch_asn_ip_ranges_try_outside(_, _, _)
fetch_asn_ip_ranges_try_outside(asn_list, responses, json_error_caught) ==
    IF asn_list = <<>>
    THEN [raised |-> FALSE, value |-> {}]
    ELSE LET n == Len(asn_list)
             before ==
                 fetch_asn_ip_ranges_try_outside(SubSeq(asn_list, 1, n - 1),
                                                 SubSeq(responses, 1, n - 1),
                                                 json_error_caught)
         IN  IF before.raised
             THEN before
             ELSE IF \E i \in 1 .. n : Failed(responses[i])
             THEN before
             ELSE IF responses[n].kind = "garbled"
             THEN [raised |-> ~json_error_caught, value |-> before.value]
             ELSE [raised |-> FALSE,
                   value |-> before.value \cup responses[n].prefixes]

\* fetch_asn_ip_ranges(asn_list, session) before list(): the loop over the
\* ASNs, responses[i] the answer to the request for asn_list[i].
\* response.json() on a body that is not JSON raises
\* requests.exceptions.JSONDecodeError, which is a RequestException in
\* requests 2.27 and later and a plain ValueError before; the repository
\* pins no version, so json_error_caught may be either.
RECURSIVE fetch_asn_ip_ranges(_, _, _)
fetch_asn_ip_ranges(asn_list, responses, json_error_caught) ==
    IF asn_list = <<>>
    THEN [raised |-> FALSE, value |-> {}]
    ELSE LET n == Len(asn_list)
             before ==
                 fetch_asn_ip_ranges(SubSeq(asn_list, 1, n - 1),
                                     SubSeq(responses, 1, n - 1),
                                     json_error_caught)
         IN  IF before.raised
             THEN before
             ELSE IF Failed(responses[n])
             THEN before
             ELSE IF responses[n].kind = "garbled"
             THEN [raised |-> ~json_error_caught, value |-> before.value]
             ELSE [raised |-> FALSE,
                   value |-> before.value \cup responses[n].prefixes]

\* list(ip_ranges): the elements of the set in any order.
Orders(S) ==
    {l \in [1 .. Cardinality(S) -> S] : Range(l) = S}

\* The count fields of output_data and the two lists.
Summary(asn_list, ranges, d4, d6, cons) ==
    [ASN_DROP |-> <<Len(asn_list), Len(ranges)>>,
     DROP_v4 |-> Len(d4),
     DROP_v6 |-> Len(d6),
     consolidated_v4 |-> Len(cons[1]),
     consolidated_v6 |-> Len(cons[2]),
     v4 |-> cons[1],
     v6 |-> cons[2]]

VARIABLES pc, drop4, drop6, asn_drop, ip_ranges, consolidated, output_data,
          remote

vars == <<pc, drop4, drop6, asn_drop, ip_ranges, consolidated, output_data,
          remote>>

NotWritten == [written |-> FALSE]

\* main(), up to the first request.
Init ==
    /\ pc = "fetch_drop4"
    /\ drop4 = <<>>
    /\ drop6 = <<>>
    /\ asn_drop = <<>>
    /\ ip_ranges = <<>>
    /\ consolidated = << <<>>, <<>> >>
    /\ output_data = NotWritten
    /\ remote = [drop4 |-> NoResponse, drop6 |-> NoResponse,
                 asn |-> NoResponse, ripe |-> <<>>]

\* drop4 = fetch_spamhaus_list(SPAMHAUS_URLS["drop_v4"], session)
FetchDrop4 ==
    /\ pc = "fetch_drop4"
    /\ \E response \in SpamhausResponses(Drop4Entries, MaxLines) :
          LET r == fetch_spamhaus_list(response)
          IN  /\ remote' = [remote EXCEPT !.drop4 = response]
              /\ IF r.raised
                 THEN pc' = "aborted" /\ UNCHANGED drop4
                 ELSE pc' = "fetch_drop6" /\ drop4' = r.value
    /\ UNCHANGED <<drop6, asn_drop, ip_ranges, consolidated, output_data>>

\* drop6 = fetch_spamhaus_list(SPAMHAUS_URLS["drop_v6"], session)
FetchDrop6 ==
    /\ pc = "fetch_drop6"
    /\ \E response \in SpamhausResponses(Drop6Entries, MaxLines) :
          LET r == fetch_spamhaus_list(response)
          IN  /\ remote' = [remote EXCEPT !.drop6 = response]
              /\ IF r.raised
                 THEN pc' = "aborted" /\ UNCHANGED drop6
                 ELSE pc' = "fetch_asn" /\ drop6' = r.value
    /\ UNCHANGED <<drop4, asn_drop, ip_ranges, consolidated, output_data>>

\* asn_drop = fetch_spamhaus_list(SPAMHAUS_URLS["asn"], session)
FetchAsnDrop ==
    /\ pc = "fetch_asn"
    /\ \E response \in SpamhausResponses(AsnEntries, MaxAsn) :
          LET r == fetch_spamhaus_list(response)
          IN  /\ remote' = [remote EXCEPT !.asn = response]
              /\ IF r.raised
                 THEN pc' = "aborted" /\ UNCHANGED asn_drop
                 ELSE pc' = "asn_ranges" /\ asn_drop' = r.value
    /\ UNCHANGED <<drop4, drop6, ip_ranges, consolidated, output_data>>

\* ip_ranges = fetch_asn_ip_ranges(asn_drop, session)
FetchAsnIpRanges ==
    /\ pc = "asn_ranges"
    /\ \E responses \in [DOMAIN asn_drop -> RipeResponses] :
       \E json_error_caught \in BOOLEAN :
          LET r == fetch_asn_ip_ranges(asn_drop, responses, json_error_caught)
          IN  /\ remote' = [remote EXCEPT !.ripe = responses]
              /\ IF r.raised
                 THEN pc' = "aborted" /\ UNCHANGED ip_ranges
                 ELSE pc' = "consolidate" /\ ip_ranges' \in Orders(r.value)
    /\ UNCHANGED <<drop4, drop6, asn_drop, consolidated, output_data>>

\* consolidate_ip_ranges(ip_ranges + drop4 + drop6)
Consolidate ==
    /\ pc = "consolidate"
    /\ consolidated' = consolidate_ip_ranges(ip_ranges \o drop4 \o drop6)
    /\ pc' = "write"
    /\ UNCHANGED <<drop4, drop6, asn_drop, ip_ranges, output_data, remote>>

\* json.dump(output_data, file); the comment and the timestamp are left out.
Write ==
    /\ pc = "write"
    /\ output_data' =
           [written |-> TRUE,
            data |-> Summary(asn_drop, ip_ranges, drop4, drop6, consolidated)]
    /\ pc' = "done"
    /\ UNCHANGED <<drop4, drop6, asn_drop, ip_ranges, consolidated, remote>>

Next ==
    \/ FetchDrop4
    \/ FetchDrop6
    \/ FetchAsnDrop
    \/ FetchAsnIpRanges
    \/ Consolidate
    \/ Write

Spec == Init /\ [][Next]_vars

\* A call of consolidate_ip_ranges on an arbitrary token list.
InitConsolidate ==
    /\ pc = "call"
    /\ ip_ranges \in TokenLists
    /\ consolidated = << <<>>, <<>> >>
    /\ drop4 = <<>>
    /\ drop6 = <<>>
    /\ asn_drop = <<>>
    /\ output_data = NotWritten
    /\ remote = [drop4 |-> NoResponse, drop6 |-> NoResponse,
                 asn |-> NoResponse, ripe |-> <<>>]

CallConsolidate ==
    /\ pc = "call"
    /\ consolidated' = consolidate_ip_ranges(ip_ranges)
    /\ pc' = "returned"
    /\ UNCHANGED <<drop4, drop6, asn_drop, ip_ranges, output_data, remote>>

NextConsolidate == CallConsolidate

SpecConsolidate == InitConsolidate /\ [][NextConsolidate]_vars

\* ---------------------------------------------------------------------
\* Properties of consolidate_ip_ranges.
\* ---------------------------------------------------------------------
Returned == pc = "returned"

\* The addresses of the block printed as "address/prefixlen".
Block(v, s) == s[1] .. s[1] + 2^(max_prefixlen(v) - s[2]) - 1

Out(v) == IF v = 4 THEN consolidated[1] ELSE consolidated[2]

OutCover(v) == UNION {Block(v, Out(v)[i]) : i \in DOMAIN Out(v)}

\* The networks of one family among the tokens ip_network accepts.
Parsed(v) ==
    {ip_network(ip_ranges[i]).net :
        i \in {j \in DOMAIN ip_ranges :
                  /\ ip_network(ip_ranges[j]).ok
                  /\ ip_network(ip_ranges[j]).net.version = v}}

InCover(v) ==
    UNION {n.network_address .. broadcast_address(n) : n \in Parsed(v)}

Rejected(ip) == ~ip_network(ip).ok

HasHostBits(ip) ==
    /\ ip.kind = "cidr"
    /\ ip.prefix <= max_prefixlen(ip.version)
    /\ ip.address % 2^(max_prefixlen(ip.version) - ip.prefix) # 0

\* C1: the addresses covered by the returned blocks of a family are
\* exactly the addresses covered by the parsed input networks of it.
C1_CoveragePreserved ==
    Returned => \A v \in Versions : OutCover(v) = InCover(v)

\* Two networks merged into one block that is neither of them.
C1_Witness ==
    /\ Returned
    /\ Cardinality(Parsed(4)) = 2
    /\ Len(Out(4)) = 1
    /\ \A n \in Parsed(4) : str(n) # Out(4)[1]

\* Every CIDR block of a family as "address/prefixlen".
AllBlocks(v) ==
    {s \in Addresses(v) \X (0 .. max_prefixlen(v)) :
        s[1] % 2^(max_prefixlen(v) - s[2]) = 0}

\* The sets of at most k elements of B.
RECURSIVE SetsUpTo(_, _)
SetsUpTo(B, k) ==
    IF k < 0
    THEN {}
    ELSE IF k = 0
    THEN {{}}
    ELSE LET smaller == SetsUpTo(B, k - 1)
         IN  smaller \cup {T \cup {b} : T \in smaller, b \in B}

PairwiseDisjoint(v, T) ==
    \A s \in T : \A t \in T \ {s} : Block(v, s) \cap Block(v, t) = {}

\* C2: no set of pairwise disjoint CIDR blocks with the same union has
\* fewer blocks than the list returned for the family.
C2_Minimal ==
    Returned =>
        \A v \in Versions :
            LET inside == {b \in AllBlocks(v) : Block(v, b) \subseteq OutCover(v)}
            IN  \A T \in SetsUpTo(inside, Len(Out(v)) - 1) :
                    ~(/\ PairwiseDisjoint(v, T)
                      /\ UNION {Block(v, b) : b \in T} = OutCover(v))

\* More networks than blocks, and still more than one block.
C2_Witness ==
    /\ Returned
    /\ Len(Out(4)) >= 2
    /\ Cardinality(Parsed(4)) > Len(Out(4))
    /\ \E i \in DOMAIN Out(4) : \A n \in Parsed(4) : str(n) # Out(4)[i]

Overlap(v, s, t) == Block(v, s) \cap Block(v, t) # {}

Adjacent(v, s, t) ==
    \/ t[1] = s[1] + 2^(max_prefixlen(v) - s[2])
    \/ s[1] = t[1] + 2^(max_prefixlen(v) - t[2])

\* The two halves of one CIDR block.
Siblings(v, s, t) ==
    /\ s[2] = t[2]
    /\ s[2] > 0
    /\ s # t
    /\ s[1] \div 2^(max_prefixlen(v) - s[2] + 1)
           = t[1] \div 2^(max_prefixlen(v) - t[2] + 1)

\* C3 as stated: two distinct returned blocks of a family neither overlap
\* nor are adjacent.
C3_NoOverlapNoAdjacency ==
    Returned =>
        \A v \in Versions : \A i, j \in DOMAIN Out(v) :
            i # j => /\ ~Overlap(v, Out(v)[i], Out(v)[j])
                     /\ ~Adjacent(v, Out(v)[i], Out(v)[j])

\* C3 amended: two distinct returned blocks of a family never overlap and
\* are never the two halves of one CIDR block; adjacent blocks remain
\* where no single CIDR block is their union.
C3_NoOverlapNoSiblings ==
    Returned =>
        \A v \in Versions : \A i, j \in DOMAIN Out(v) :
            i # j => /\ ~Overlap(v, Out(v)[i], Out(v)[j])
                     /\ ~Siblings(v, Out(v)[i], Out(v)[j])

\* Halves were merged and two of the returned blocks are still adjacent.
C3_Witness ==
    /\ Returned
    /\ \E i, j \in DOMAIN Out(4) : Adjacent(4, Out(4)[i], Out(4)[j])
    /\ \E m, n \in Parsed(4) : Siblings(4, str(m), str(n))

\* The token lists with the same elements: the permutations of a list
\* and the lists that repeat some of its elements.
Rearrangements(l) ==
    {m \in UNION {[1 .. n -> Range(l)] : n \in 0 .. MaxLen} :
        Range(m) = Range(l)}

\* C4: every permutation of the token list, and every list that repeats
\* elements of it, gives the identical pair of lists.
C4_OrderIndependent ==
    Returned =>
        \A m \in Rearrangements(ip_ranges) :
            consolidate_ip_ranges(m) = consolidated

C4_Witness ==
    /\ Returned
    /\ Len(ip_ranges) = 2
    /\ Cardinality(Parsed(4)) = 2
    /\ NetLess(ip_network(ip_ranges[2]).net, ip_network(ip_ranges[1]).net)
    /\ Len(Out(4)) = 2

\* C5: the call returns, and returns what it returns for the list without
\* the tokens ip_network rejects.
C5_BadTokenSkipped ==
    Returned =>
        consolidated =
            consolidate_ip_ranges(
                SelectSeq(ip_ranges, LAMBDA ip : ~Rejected(ip)))

\* "not-an-ip" beside two valid tokens, which are merged.
C5_Witness ==
    /\ Returned
    /\ ip_ranges = Scenario5
    /\ Rejected(ip_ranges[1])
    /\ consolidated = << << <<0, 0>> >>, <<>> >>

\* C7 as stated: a CIDR token with host bits set enters the aggregation
\* masked down to its prefix length, and the output covers it.
C7_HostBitsMasked ==
    Returned =>
        \A i \in DOMAIN ip_ranges :
            HasHostBits(ip_ranges[i]) =>
                LET ip == ip_ranges[i]
                    size == 2^(max_prefixlen(ip.version) - ip.prefix)
                    base == ip.address - (ip.address % size)
                IN  base .. base + size - 1 \subseteq OutCover(ip.version)

\* C7 amended: ip_network rejects a CIDR token with host bits set; the
\* token is skipped and the output covers only the networks of the
\* tokens without host bits.
C7_HostBitsRejected ==
    Returned =>
        /\ \A i \in DOMAIN ip_ranges :
               HasHostBits(ip_ranges[i]) => Rejected(ip_ranges[i])
        /\ \A v \in Versions :
               OutCover(v) =
                   UNION {Block(v, <<ip_ranges[i].address,
                                     IF ip_ranges[i].kind = "bare"
                                     THEN max_prefixlen(v)
                                     ELSE ip_ranges[i].prefix>>) :
                       i \in {j \in DOMAIN ip_ranges :
                                 /\ ip_ranges[j].kind \in {"cidr", "bare"}
                                 /\ ip_ranges[j].version = v
                                 /\ ~HasHostBits(ip_ranges[j])
                                 /\ ip_ranges[j].kind = "cidr" =>
                                        ip_ranges[j].prefix <= max_prefixlen(v)}}

C7_Witness ==
    /\ Returned
    /\ \E i \in DOMAIN ip_ranges : HasHostBits(ip_ranges[i])
    /\ \E i \in DOMAIN ip_ranges : ~Rejected(ip_ranges[i])
    /\ OutCover(4) # {}

\* C8: each returned list is in strictly ascending order of base address.
C8_Ascending ==
    Returned =>
        \A v \in Versions : \A i, j \in DOMAIN Out(v) :
            i < j => Out(v)[i][1] < Out(v)[j][1]

C8_Witness ==
    /\ Returned
    /\ Len(ip_ranges) = 2
    /\ Len(Out(4)) = 2
    /\ ip_ranges[1].kind = "cidr"
    /\ ip_ranges[2].kind = "cidr"
    /\ ip_ranges[1].version = 4
    /\ ip_ranges[2].version = 4
    /\ ip_ranges[1].address > ip_ranges[2].address

\* 198.51.100.0/24 and 198.51.101.0/24 are the first and the second
\* quarter of 198.51.100.0/22: in the model, whose IPv4 space stands for
\* that /22, the blocks of prefix length 2 at 0 and at a quarter of the
\* space.  198.51.100.0/23 is the block of prefix length 1 at 0.
Quarter == 2^(Width4 - 2)

Scenario4 == <<Cidr(4, 0, 2), Cidr(4, Quarter, 2)>>

\* C10 as stated: the two /24 come back unchanged, as two blocks.
C10_TwoBlocksUnchanged ==
    (Returned /\ ip_ranges = Scenario4) =>
        consolidated = << << <<0, 2>>, <<Quarter, 2>> >>, <<>> >>

\* C10 amended: the two /24 are the halves of 198.51.100.0/23 and come
\* back merged into that single block.
C10_MergedIntoOne ==
    (Returned /\ ip_ranges = Scenario4) =>
        consolidated = << << <<0, 1>> >>, <<>> >>

C10_Witness == Returned /\ ip_ranges = Scenario4 /\ Len(Out(4)) = 1

\* ---------------------------------------------------------------------
\* Properties of main.
\* ---------------------------------------------------------------------
\* C6: a request that is unreachable or answered with an error status
\* leaves its list empty, adds nothing to the ASN prefixes while the
\* prefixes of the other ASNs are all kept, and never aborts main: every
\* such step leads on towards consolidating and writing the document,
\* and main aborts only on a body that is not JSON.
C6_FailedFetchContributesNothing ==
    [][/\ (pc = "fetch_drop4" /\ Failed(remote'.drop4)) =>
              (drop4' = <<>> /\ pc' = "fetch_drop6")
       /\ (pc = "fetch_drop6" /\ Failed(remote'.drop6)) =>
              (drop6' = <<>> /\ pc' = "fetch_asn")
       /\ (pc = "fetch_asn" /\ Failed(remote'.asn)) =>
              (asn_drop' = <<>> /\ pc' = "asn_ranges")
       /\ (pc = "asn_ranges" /\ pc' # "aborted") =>
              /\ pc' = "consolidate"
              /\ Len(remote'.ripe) = Len(asn_drop)
              /\ Range(ip_ranges') =
                     UNION {remote'.ripe[i].prefixes :
                               i \in {j \in DOMAIN remote'.ripe :
                                         remote'.ripe[j].kind = "ok"}}
       /\ pc = "consolidate" => pc' = "write"
       /\ pc = "write" => (pc' = "done" /\ output_data'.written)
       /\ pc' = "aborted" =>
              \E r \in {remote'.drop4, remote'.drop6, remote'.asn}
                          \cup Range(remote'.ripe) :
                  r.kind = "garbled"
      ]_vars

C6_Witness ==
    /\ pc = "done"
    /\ output_data.written
    /\ Failed(remote.drop4)
    /\ Len(asn_drop) = 2
    /\ Failed(remote.ripe[1])
    /\ remote.ripe[2].kind = "ok"
    /\ ip_ranges # <<>>
    /\ Len(consolidated[1]) + Len(consolidated[2]) > 0

\* The summary count fields of the document.
Counts(data) ==
    <<data.ASN_DROP, data.DROP_v4, data.DROP_v6, data.consolidated_v4,
      data.consolidated_v6>>

\* What main writes when the services answer r4, r6, ra and rr.
RunCounts(r4, r6, ra, rr) ==
    LET d4 == fetch_spamhaus_list(r4).value
        d6 == fetch_spamhaus_list(r6).value
        asn_list == fetch_spamhaus_list(ra).value
        S == fetch_asn_ip_ranges(asn_list, rr, TRUE).value
        ranges == CHOOSE l \in Orders(S) : TRUE
    IN  Counts(Summary(asn_list, ranges, d4, d6,
                       consolidate_ip_ranges(ranges \o d4 \o d6)))

\* A run in which a request failed or consolidate_ip_ranges skipped a token.
DegradedRun(r4, r6, ra, rr) ==
    \/ \E r \in {r4, r6, ra} : r.kind # "ok"
    \/ \E i \in DOMAIN rr : rr[i].kind # "ok"
    \/ \E i \in DOMAIN r4.lines : Rejected(entry_get(r4.lines[i]))
    \/ \E i \in DOMAIN r6.lines : Rejected(entry_get(r6.lines[i]))
    \/ \E i \in DOMAIN rr : \E ip \in rr[i].prefixes : Rejected(ip)

\* C9: when the run that wrote the document was degraded, no run without
\* a failed request and without a skipped token writes the same counts.
C9_DegradationVisibleInCounts ==
    (/\ pc = "done"
     /\ DegradedRun(remote.drop4, remote.drop6, remote.asn, remote.ripe)) =>
        \A r4 \in SpamhausResponses(Drop4Entries, MaxLines) :
        \A r6 \in SpamhausResponses(Drop6Entries, MaxLines) :
        \A ra \in SpamhausResponses(AsnEntries, MaxAsn) :
        \A rr \in [DOMAIN ra.lines -> RipeResponses] :
            ~DegradedRun(r4, r6, ra, rr) =>
                RunCounts(r4, r6, ra, rr) # Counts(output_data.data)

====
